---- MODULE Spec2Model ----
(***************************************************************************)
(* The command-line client of src/src/main.rs: one run of `main` connects  *)
(* to the node, loads the account keys, fetches the account nonce, builds  *)
(* and signs one transaction (deploy, init, mint, transfer) or invokes the *)
(* tokenMetadata view, submits the transaction, awaits its finalization    *)
(* and prints the outcome.  Every variable that belongs to a run is a      *)
(* function of the run; the account nonce at the node is shared.           *)
(***************************************************************************)
EXTENDS Integers, Sequences, FiniteSets, TLC

VARIABLES
    app,            \* app[r]: the parsed command line of run r (struct App)
    pc,             \* pc[r]: the statement of main that run r executes next
    trace,          \* trace[r]: history of the calls of run r and their results
    keys,           \* keys[r]: the WalletAccount, once loaded
    nonce,          \* nonce[r]: acc_info.account_nonce as fetched by run r
    parameter,      \* parameter[r]: the parsed JSON parameter
    schema,         \* schema[r]: the parsed VersionedModuleSchema
    context,        \* context[r]: the ContractContext of the view invocation
    tx,             \* tx[r]: the TransactionResult
    answer,         \* answer[r]: what the node holds for wait_until_finalized
    out,            \* out[r]: the lines printed on standard output
    exit,           \* exit[r]: how the process of run r ended
    err,            \* err[r]: the error main returned, if any
    account_nonce   \* the account's next nonce at the node's best block

vars == <<app, pc, trace, keys, nonce, parameter, schema, context, tx, answer,
          out, exit, err, account_nonce>>

(***************************************************************************)
(* Bounds of the model.                                                    *)
(***************************************************************************)
\* the account nonce at the node grows up to MaxNonce
MaxNonce == 3

\* the runs of the single-run specification
OneRun == {1}

\* the runs of the specification of two concurrent runs on one account
TwoRuns == {1, 2}

(***************************************************************************)
(* Values.                                                                 *)
(***************************************************************************)
Unset == [type |-> "Unset"]

\* `nonce` before line 130 binds it (account nonces start at 1)
NoNonce == 0

Ok(v) == [ok |-> TRUE, val |-> v]

Err(v) == [ok |-> FALSE, val |-> v]

\* enum Action with enum TransactionType, and the Option of --parameter
Actions ==
    {[action |-> "Deploy", transaction_type_ |-> "-", parameter |-> "-"],
     [action |-> "Init", transaction_type_ |-> "-", parameter |-> "-"]}
    \cup [action : {"UpdateWithSchema"},
          transaction_type_ : {"Mint", "Transfer", "TokenMetadata"},
          parameter : {"None", "Some"}]

\* serde_json::Value, as far as the layouts below tell values apart
JNull == [k |-> "null", v |-> 0]

JBool(b) == [k |-> "bool", v |-> b]

JNum(n) == [k |-> "num", v |-> n]

JsonValues == {JNull, JBool(1), JNum(7), JNum(300)}

\* schema::Type, the layouts of the model's schemas
Layouts == {"Unit", "Bool", "U8", "U16"}

NoSchema == "NoSchema"

\* Type::serial_value: JSON to bytes by the layout, or an error
serial_value(layout, json) ==
    CASE layout = "Unit" -> Ok(<<>>)
      [] layout = "Bool" ->
            IF json.k = "bool" THEN Ok(<<json.v>>) ELSE Err("JSON boolean required")
      [] layout = "U8" ->
            IF json.k = "num" /\ json.v < 256 THEN Ok(<<json.v>>)
            ELSE Err("u8 required")
      [] layout = "U16" ->
            IF json.k = "num" /\ json.v < 65536
            THEN Ok(<<json.v % 256, json.v \div 256>>)
            ELSE Err("u16 required")

\* Type::to_json_string_pretty: bytes to JSON by the layout, or an error
to_json_string_pretty(layout, bytes) ==
    CASE layout = "Unit" -> Ok(JNull)
      [] layout = "Bool" ->
            IF Len(bytes) >= 1 /\ bytes[1] \in {0, 1} THEN Ok(JBool(bytes[1]))
            ELSE Err("could not deserialize bool")
      [] layout = "U8" ->
            IF Len(bytes) >= 1 THEN Ok(JNum(bytes[1]))
            ELSE Err("could not deserialize u8")
      [] layout = "U16" ->
            IF Len(bytes) >= 2 THEN Ok(JNum(bytes[1] + 256 * bytes[2]))
            ELSE Err("could not deserialize u16")

\* the schemas a schema file of the model may hold: per method of the
\* contract rust_sdk_minting_tutorial, the parameter and return layouts
Schemas ==
    {[mint |-> [param |-> "U8", rv |-> NoSchema],
      transfer |-> [param |-> "U16", rv |-> NoSchema],
      tokenMetadata |-> [param |-> "Unit", rv |-> "U8"]],
     [mint |-> [param |-> NoSchema, rv |-> NoSchema],
      transfer |-> [param |-> "Bool", rv |-> NoSchema],
      tokenMetadata |-> [param |-> "U8", rv |-> "Bool"]],
     [mint |-> [param |-> "U16", rv |-> NoSchema],
      transfer |-> [param |-> NoSchema, rv |-> NoSchema],
      tokenMetadata |-> [param |-> "U16", rv |-> NoSchema]]}

\* get_receive_param_schema("rust_sdk_minting_tutorial", method)
get_receive_param_schema(s, method) ==
    IF s[method].param = NoSchema THEN Err("no parameter schema")
    ELSE Ok(s[method].param)

\* get_receive_return_value_schema("rust_sdk_minting_tutorial", method)
get_receive_return_value_schema(s, method) ==
    IF s[method].rv = NoSchema THEN Err("no return value schema")
    ELSE Ok(s[method].rv)

\* the return values the node may hand back for a view invocation
ReturnValues == {<<>>, <<1>>, <<7>>, <<44, 1>>}

\* the reject reasons of the model
RejectReasons == {"OutOfEnergy", "RejectedReceive"}

\* BlockItemSummaryDetails of the finalized block item
Summaries ==
    {[details |-> "AccountTransaction", effects |-> "ModuleDeployed", data |-> "module_ref"],
     [details |-> "AccountTransaction", effects |-> "ContractInitialized", data |-> "address"],
     [details |-> "AccountTransaction", effects |-> "ContractUpdateIssued", data |-> "effects"],
     [details |-> "AccountTransaction", effects |-> "AccountTransfer", data |-> "-"],
     [details |-> "AccountCreation", effects |-> "-", data |-> "-"],
     [details |-> "Update", effects |-> "-", data |-> "-"]}
    \cup {[details |-> "AccountTransaction", effects |-> "None", data |-> x] :
            x \in RejectReasons}

(***************************************************************************)
(* Helpers of the actions.                                                 *)
(***************************************************************************)
E(stage, res) == [stage |-> stage, res |-> res]

Log(r, entries) == [trace EXCEPT ![r] = @ \o entries]

\* main returns Err(msg): the process prints the error and exits non-zero
ReturnErr(r, entries, msg) ==
    /\ pc' = [pc EXCEPT ![r] = "failed"]
    /\ exit' = [exit EXCEPT ![r] = "failure"]
    /\ err' = [err EXCEPT ![r] = msg]
    /\ trace' = Log(r, entries)

\* an unwrap() of None or Err: the process panics and exits non-zero
Panic(r, entries, msg) ==
    /\ pc' = [pc EXCEPT ![r] = "failed"]
    /\ exit' = [exit EXCEPT ![r] = "panic"]
    /\ err' = [err EXCEPT ![r] = msg]
    /\ trace' = Log(r, entries)

Goto(r, entries, next) ==
    /\ pc' = [pc EXCEPT ![r] = next]
    /\ trace' = Log(r, entries)
    /\ UNCHANGED <<exit, err>>

\* main returns Ok(()): the process exits with status 0
ReturnOk(r, entries) ==
    /\ pc' = [pc EXCEPT ![r] = "done"]
    /\ exit' = [exit EXCEPT ![r] = "success"]
    /\ trace' = Log(r, entries)
    /\ UNCHANGED err

Println(r, lines) == out' = [out EXCEPT ![r] = @ \o lines]

(***************************************************************************)
(* The state after the command line is parsed (main, lines 110-114).       *)
(***************************************************************************)
InitRuns(R) ==
    /\ app \in [R -> Actions]
    /\ pc = [r \in R |-> "connect"]
    /\ trace = [r \in R |-> <<>>]
    /\ keys = [r \in R |-> Unset]
    /\ nonce = [r \in R |-> NoNonce]
    /\ parameter = [r \in R |-> Unset]
    /\ schema = [r \in R |-> Unset]
    /\ context = [r \in R |-> Unset]
    /\ tx = [r \in R |-> Unset]
    /\ answer = [r \in R |-> Unset]
    /\ out = [r \in R |-> <<>>]
    /\ exit = [r \in R |-> "running"]
    /\ err = [r \in R |-> "-"]
    /\ account_nonce = 1

Init == InitRuns(OneRun)

(***************************************************************************)
(* main, lines 116-118: v2::Client::new(app.endpoint).await                *)
(***************************************************************************)
ClientNew(r) ==
    /\ pc[r] = "connect"
    /\ \E res \in {Ok("client"), Err("transport")} :
          IF ~res.ok
          THEN ReturnErr(r, <<E("connect", "err")>>, "Cannot connect.")
          ELSE Goto(r, <<E("connect", "ok")>>, "read_keys")
    /\ UNCHANGED <<app, keys, nonce, parameter, schema, context, tx, answer, out,
                   account_nonce>>

(***************************************************************************)
(* main, lines 121-122: WalletAccount::from_json_file(app.keys_path)       *)
(***************************************************************************)
\* the `?` of line 122 on an error
KeysFailedDeferred(r) ==
    Goto(r, <<E("read_keys", "err")>>, "get_account_info")

KeysFailed(r) ==
    ReturnErr(r, <<E("read_keys", "err")>>, "Could not read the keys file.")

FromJsonFile(r) ==
    /\ pc[r] = "read_keys"
    /\ \E res \in {Ok([type |-> "WalletAccount", address |-> "sender"]),
                   Err("missing"), Err("invalid")} :
          IF ~res.ok
          THEN /\ KeysFailed(r)
               /\ UNCHANGED keys
          ELSE /\ Goto(r, <<E("read_keys", "ok")>>, "get_account_info")
               /\ keys' = [keys EXCEPT ![r] = res.val]
    /\ UNCHANGED <<app, nonce, parameter, schema, context, tx, answer, out,
                   account_nonce>>

(***************************************************************************)
(* main, lines 125-130: client.get_account_info(address, Best).await?      *)
(***************************************************************************)
GetAccountInfoLocked(r) ==
    /\ pc[r] = "get_account_info"
    /\ \A q \in DOMAIN pc \ {r} : nonce[q] = NoNonce \/ exit[q] # "running"
    /\ \E res \in {Ok([account_nonce |-> account_nonce]), Err("rpc")} :
          IF ~res.ok
          THEN /\ ReturnErr(r, <<E("get_account_info", "err")>>, "rpc error")
               /\ UNCHANGED nonce
          ELSE /\ Goto(r, <<E("get_account_info", "ok")>>, "match_action")
               /\ nonce' = [nonce EXCEPT ![r] = res.val.account_nonce]
    /\ UNCHANGED <<app, keys, parameter, schema, context, tx, answer, out,
                   account_nonce>>

GetAccountInfo(r) ==
    /\ pc[r] = "get_account_info"
    /\ \E res \in {Ok([account_nonce |-> account_nonce]), Err("rpc")} :
          IF ~res.ok
          THEN /\ ReturnErr(r, <<E("get_account_info", "err")>>, "rpc error")
               /\ UNCHANGED nonce
          ELSE /\ Goto(r, <<E("get_account_info", "ok")>>, "match_action")
               /\ nonce' = [nonce EXCEPT ![r] = res.val.account_nonce]
    /\ UNCHANGED <<app, keys, parameter, schema, context, tx, answer, out,
                   account_nonce>>

(***************************************************************************)
(* The transactions of send::init_contract, send::update_contract and      *)
(* send::deploy_module: the payload, signed by the keys, with the header   *)
(* fields sender, nonce, expiry and energy.                                *)
(***************************************************************************)
\* main, lines 132-133: now + 300 seconds
expiry == "now+300"

sign(k, sender, n, exp, payload, energy) ==
    [type |-> "StateChanging", signer |-> k.address, sender |-> sender,
     nonce |-> n, expiry |-> exp, energy |-> energy, payload |-> payload]

init_contractNextNonce(k, n, payload) ==
    sign(k, k.address, n + 1, expiry, payload, 10000)

init_contract(k, n, payload) == sign(k, k.address, n, expiry, payload, 10000)

update_contract(k, n, payload) == sign(k, k.address, n, expiry, payload, 10000)

\* the energy of a deployment is derived from the module, not given
deploy_module(k, n, payload) == sign(k, k.address, n, expiry, payload, 0)

InitContractPayload ==
    [kind |-> "InitContract", amount |-> 0, mod_ref |-> "module_ref",
     init_name |-> "init_rust_sdk_minting_tutorial", param |-> <<>>]

UpdateContractPayloadWithAmount(receive_name, message) ==
    [kind |-> "UpdateContract", amount |-> Len(message), address |-> "address",
     receive_name |-> receive_name, message |-> message]

UpdateContractPayload(receive_name, message) ==
    [kind |-> "UpdateContract", amount |-> 0, address |-> "address",
     receive_name |-> receive_name, message |-> message]

\* OwnedParameter::try_from fails above this many bytes
MaxParameterLen == 65535

(***************************************************************************)
(* main, lines 136-157: Action::Init                                       *)
(***************************************************************************)
InitAction(r) ==
    /\ pc[r] = "match_action"
    /\ app[r].action = "Init"
    /\ tx' = [tx EXCEPT ![r] = init_contract(keys[r], nonce[r], InitContractPayload)]
    /\ Goto(r, <<E("build", "ok"), E("sign", "ok")>>, "match_tx")
    /\ UNCHANGED <<app, keys, nonce, parameter, schema, context, answer, out,
                   account_nonce>>

(***************************************************************************)
(* main, lines 265-276: Action::Deploy                                     *)
(***************************************************************************)
DeployAction(r) ==
    /\ pc[r] = "match_action"
    /\ app[r].action = "Deploy"
    /\ \E res \in {Err("unreadable"), Err("malformed"), Ok("WasmModule")} :
          CASE ~res.ok /\ res.val = "unreadable" ->
                  /\ ReturnErr(r, <<E("read_module", "err")>>,
                               "Could not read contract module.")
                  /\ UNCHANGED tx
            [] ~res.ok /\ res.val = "malformed" ->
                  /\ ReturnErr(r, <<E("read_module", "ok"), E("parse_module", "err")>>,
                               "deserial error")
                  /\ UNCHANGED tx
            [] res.ok ->
                  /\ tx' = [tx EXCEPT ![r] =
                               deploy_module(keys[r], nonce[r],
                                             [kind |-> "DeployModule", module |-> res.val])]
                  /\ Goto(r, <<E("read_module", "ok"), E("parse_module", "ok"),
                               E("build", "ok"), E("sign", "ok")>>, "match_tx")
    /\ UNCHANGED <<app, keys, nonce, parameter, schema, context, answer, out,
                   account_nonce>>

(***************************************************************************)
(* main, lines 164-167: the parameter file is read and parsed as JSON      *)
(***************************************************************************)
ReadParameter(r) ==
    /\ pc[r] = "match_action"
    /\ app[r].action = "UpdateWithSchema"
    /\ IF app[r].parameter = "None"
       THEN /\ Panic(r, <<E("read_parameter", "panic")>>, "unwrap on None")
            /\ UNCHANGED parameter
       ELSE \E res \in {Err("unreadable"), Err("not json")}
                        \cup {Ok(j) : j \in JsonValues} :
               CASE ~res.ok /\ res.val = "unreadable" ->
                       /\ ReturnErr(r, <<E("read_parameter", "err")>>,
                                    "Unable to read parameter file.")
                       /\ UNCHANGED parameter
                 [] ~res.ok /\ res.val = "not json" ->
                       /\ ReturnErr(r, <<E("read_parameter", "ok"),
                                         E("parse_parameter", "err")>>,
                                    "Unable to parse parameter JSON.")
                       /\ UNCHANGED parameter
                 [] res.ok ->
                       /\ parameter' = [parameter EXCEPT ![r] = res.val]
                       /\ Goto(r, <<E("read_parameter", "ok"),
                                    E("parse_parameter", "ok")>>, "read_schema")
    /\ UNCHANGED <<app, keys, nonce, schema, context, tx, answer, out, account_nonce>>

(***************************************************************************)
(* main, lines 169-174: the schema file is read, base64-decoded and parsed *)
(***************************************************************************)
ReadSchema(r) ==
    /\ pc[r] = "read_schema"
    /\ \E res \in {Err("unreadable"), Err("not base64"), Err("not a schema")}
                   \cup {Ok(s) : s \in Schemas} :
          CASE ~res.ok /\ res.val = "unreadable" ->
                  /\ ReturnErr(r, <<E("read_schema", "err")>>,
                               "Unable to read the schema file.")
                  /\ UNCHANGED schema
            [] ~res.ok /\ res.val = "not base64" ->
                  /\ ReturnErr(r, <<E("read_schema", "ok"), E("parse_schema", "err")>>,
                               "base64 decode error")
                  /\ UNCHANGED schema
            [] ~res.ok /\ res.val = "not a schema" ->
                  /\ ReturnErr(r, <<E("read_schema", "ok"), E("parse_schema", "err")>>,
                               "schema parse error")
                  /\ UNCHANGED schema
            [] res.ok ->
                  /\ schema' = [schema EXCEPT ![r] = res.val]
                  /\ Goto(r, <<E("read_schema", "ok"), E("parse_schema", "ok")>>,
                          "match_type")
    /\ UNCHANGED <<app, keys, nonce, parameter, context, tx, answer, out,
                   account_nonce>>

(***************************************************************************)
(* main, lines 177-223: TransactionType::Mint and ::Transfer, the same     *)
(* code for the methods mint and transfer                                  *)
(***************************************************************************)
UpdateLenient(r, method) ==
    LET param_schema == get_receive_param_schema(schema[r], method)
        serialized_parameter == serial_value(param_schema.val, parameter[r])
        message == IF serialized_parameter.ok THEN serialized_parameter.val ELSE <<>>
        payload == UpdateContractPayload(method, message)
    IN  /\ pc[r] = "match_type"
        /\ CASE ~param_schema.ok ->
                   /\ ReturnErr(r, <<E("schema_lookup", "err")>>, param_schema.val)
                   /\ UNCHANGED tx
             [] OTHER ->
                   /\ tx' = [tx EXCEPT ![r] = update_contract(keys[r], nonce[r], payload)]
                   /\ Goto(r, <<E("schema_lookup", "ok"),
                                E("encode", IF serialized_parameter.ok THEN "ok" ELSE "err"),
                                E("build", "ok"), E("sign", "ok")>>, "match_tx")
        /\ UNCHANGED <<app, keys, nonce, parameter, schema, context, answer, out,
                       account_nonce>>

Update(r, method) ==
    LET param_schema == get_receive_param_schema(schema[r], method)
        serialized_parameter == serial_value(param_schema.val, parameter[r])
        payload == UpdateContractPayload(method, serialized_parameter.val)
    IN  /\ pc[r] = "match_type"
        /\ CASE ~param_schema.ok ->
                   /\ ReturnErr(r, <<E("schema_lookup", "err")>>, param_schema.val)
                   /\ UNCHANGED tx
             [] param_schema.ok /\ ~serialized_parameter.ok ->
                   /\ ReturnErr(r, <<E("schema_lookup", "ok"), E("encode", "err")>>,
                                serialized_parameter.val)
                   /\ UNCHANGED tx
             [] param_schema.ok /\ serialized_parameter.ok
                  /\ Len(serialized_parameter.val) > MaxParameterLen ->
                   /\ Panic(r, <<E("schema_lookup", "ok"), E("encode", "ok"),
                                 E("build", "panic")>>, "unwrap on Err")
                   /\ UNCHANGED tx
             [] OTHER ->
                   /\ tx' = [tx EXCEPT ![r] = update_contract(keys[r], nonce[r], payload)]
                   /\ Goto(r, <<E("schema_lookup", "ok"), E("encode", "ok"),
                                E("build", "ok"), E("sign", "ok")>>, "match_tx")
        /\ UNCHANGED <<app, keys, nonce, parameter, schema, context, answer, out,
                       account_nonce>>

Mint(r) ==
    /\ app[r].transaction_type_ = "Mint"
    /\ Update(r, "mint")

Transfer(r) ==
    /\ app[r].transaction_type_ = "Transfer"
    /\ Update(r, "transfer")

(***************************************************************************)
(* main, lines 225-243: TransactionType::TokenMetadata up to the context   *)
(***************************************************************************)
TokenMetadata(r) ==
    LET param_schema == get_receive_param_schema(schema[r], "tokenMetadata")
        rv_schema == get_receive_return_value_schema(schema[r], "tokenMetadata")
        serialized_parameter == serial_value(param_schema.val, parameter[r])
    IN  /\ pc[r] = "match_type"
        /\ app[r].transaction_type_ = "TokenMetadata"
        /\ CASE ~param_schema.ok ->
                   /\ ReturnErr(r, <<E("schema_lookup", "err")>>, param_schema.val)
                   /\ UNCHANGED context
             [] param_schema.ok /\ ~rv_schema.ok ->
                   /\ ReturnErr(r, <<E("schema_lookup", "err")>>, rv_schema.val)
                   /\ UNCHANGED context
             [] param_schema.ok /\ rv_schema.ok /\ ~serialized_parameter.ok ->
                   /\ ReturnErr(r, <<E("schema_lookup", "ok"), E("encode", "err")>>,
                                serialized_parameter.val)
                   /\ UNCHANGED context
             [] param_schema.ok /\ rv_schema.ok /\ serialized_parameter.ok
                  /\ Len(serialized_parameter.val) > MaxParameterLen ->
                   /\ Panic(r, <<E("schema_lookup", "ok"), E("encode", "ok"),
                                 E("context", "panic")>>, "unwrap on Err")
                   /\ UNCHANGED context
             [] OTHER ->
                   /\ context' = [context EXCEPT ![r] =
                                     [type |-> "ContractContext", invoker |-> "None",
                                      contract |-> "address", amount |-> 0,
                                      method |-> "tokenMetadata",
                                      parameter |-> serialized_parameter.val,
                                      energy |-> 1000000]]
                   /\ Goto(r, <<E("schema_lookup", "ok"), E("encode", "ok"),
                                E("context", "ok")>>, "invoke_instance")
        /\ UNCHANGED <<app, keys, nonce, parameter, schema, tx, answer, out,
                       account_nonce>>

(***************************************************************************)
(* main, lines 245-259: client.invoke_instance(Best, context).await? and   *)
(* the match on the response                                               *)
(***************************************************************************)
\* the responses of the node to invoke_instance
InvokeResponses ==
    {Err("rpc"),
     Ok([result |-> "Failure", return_value |-> "None", value |-> <<>>]),
     Ok([result |-> "Success", return_value |-> "None", value |-> <<>>])}
    \cup {Ok([result |-> "Success", return_value |-> "Some", value |-> b]) :
            b \in ReturnValues}

\* line 253: the return value rendered as JSON
ViewOutputParam(param_schema, rv_schema, bytes) ==
    to_json_string_pretty(param_schema, bytes)

ViewOutput(param_schema, rv_schema, bytes) ==
    to_json_string_pretty(rv_schema, bytes)

\* line 259: the TransactionResult of the view arm
ViewResultSubmitted(r) ==
    update_contract(keys[r], nonce[r],
                    UpdateContractPayload("tokenMetadata", context[r].parameter))

ViewResult(r) == [type |-> "None"]

InvokeInstance(r) ==
    LET param_schema == get_receive_param_schema(schema[r], "tokenMetadata").val
        rv_schema == get_receive_return_value_schema(schema[r], "tokenMetadata").val
    IN  /\ pc[r] = "invoke_instance"
        /\ \E info \in InvokeResponses :
              LET printed == ViewOutput(param_schema, rv_schema, info.val.value)
              IN  CASE ~info.ok ->
                          /\ ReturnErr(r, <<E("invoke_instance", "err")>>, "rpc error")
                          /\ UNCHANGED <<tx, out>>
                    [] info.ok /\ info.val.result = "Success"
                         /\ info.val.return_value = "None" ->
                          /\ Panic(r, <<E("invoke_instance", "ok"), E("decode", "panic")>>,
                                   "unwrap on None")
                          /\ UNCHANGED <<tx, out>>
                    [] info.ok /\ info.val.result = "Success"
                         /\ info.val.return_value = "Some" /\ ~printed.ok ->
                          /\ ReturnErr(r, <<E("invoke_instance", "ok"), E("decode", "err")>>,
                                       printed.val)
                          /\ UNCHANGED <<tx, out>>
                    [] info.ok /\ info.val.result = "Success"
                         /\ info.val.return_value = "Some" /\ printed.ok ->
                          /\ Println(r, <<[line |-> "return value", value |-> printed.val,
                                            bytes |-> info.val.value]>>)
                          /\ tx' = [tx EXCEPT ![r] = ViewResult(r)]
                          /\ Goto(r, <<E("invoke_instance", "ok"), E("decode", "ok")>>,
                                  "match_tx")
                    [] info.ok /\ info.val.result = "Failure" ->
                          /\ Println(r, <<[line |-> "Could'nt succesfully invoke the instance."]>>)
                          /\ tx' = [tx EXCEPT ![r] = ViewResult(r)]
                          /\ Goto(r, <<E("invoke_instance", "rejected")>>, "match_tx")
        /\ UNCHANGED <<app, keys, nonce, parameter, schema, context, answer,
                       account_nonce>>

(***************************************************************************)
(* main, lines 279-287: TransactionResult::StateChanging, the submission   *)
(***************************************************************************)
\* the hash of a block item identifies its sender, nonce and payload
HashOf(item) == <<item.sender, item.nonce, item.payload.kind>>

\* line 283 on an error of send_block_item: the `?` returns it
SendRejectedRetry(r) ==
    /\ trace' = Log(r, <<E("send_block_item", "err")>>)
    /\ UNCHANGED <<pc, exit, err, out, answer>>

SendRejectedContinue(r) ==
    /\ Println(r, <<[line |-> "submitted", transaction_hash |-> <<>>, nonce |-> nonce[r]]>>)
    /\ answer' = [answer EXCEPT ![r] = [type |-> "Pending"]]
    /\ Goto(r, <<E("send_block_item", "err")>>, "wait_until_finalized")

SendRejected(r) ==
    /\ ReturnErr(r, <<E("send_block_item", "err")>>, "rpc error")
    /\ UNCHANGED <<out, answer>>

\* lines 283-288 on success: the hash and the nonce are printed, then the
\* run awaits the finalization; the node holds the transaction as pending
SendAcceptedReportNow(r, transaction_hash) ==
    /\ Println(r, <<[line |-> "submitted", transaction_hash |-> transaction_hash,
                     nonce |-> nonce[r]]>>)
    /\ UNCHANGED answer
    /\ ReturnOk(r, <<E("send_block_item", "ok"), E("report", "ok")>>)

SendAccepted(r, transaction_hash) ==
    /\ Println(r, <<[line |-> "submitted", transaction_hash |-> transaction_hash,
                     nonce |-> nonce[r]]>>)
    /\ answer' = [answer EXCEPT ![r] = [type |-> "Pending"]]
    /\ Goto(r, <<E("send_block_item", "ok")>>, "wait_until_finalized")

\* the ledger: a transaction is accepted when its nonce is not below the
\* account's next nonce and no accepted transaction of the account carries it
LedgerAccepts(item) ==
    /\ item.nonce >= account_nonce
    /\ \A q \in DOMAIN pc :
          (\E i \in DOMAIN trace[q] : trace[q][i] = E("send_block_item", "ok"))
              => tx[q].nonce # item.nonce

\* the answers of the node to send_block_item: a transport or protocol
\* error, or the hash of the accepted block item
SendResponses(item) ==
    {Err("rejected")} \cup (IF LedgerAccepts(item) THEN {Ok(HashOf(item))} ELSE {})

SendBlockItem(r) ==
    /\ pc[r] = "match_tx"
    /\ tx[r].type = "StateChanging"
    /\ \E res \in SendResponses(tx[r]) :
          IF ~res.ok THEN SendRejected(r) ELSE SendAccepted(r, res.val)
    /\ UNCHANGED <<app, keys, nonce, parameter, schema, context, tx, account_nonce>>

(***************************************************************************)
(* main, lines 313-318: TransactionResult::None                            *)
(***************************************************************************)
NoStateChanges(r) ==
    /\ pc[r] = "match_tx"
    /\ tx[r].type = "None"
    /\ Println(r, <<[line |-> "No state changes, gracefully exiting."]>>)
    /\ ReturnOk(r, <<>>)
    /\ UNCHANGED <<app, keys, nonce, parameter, schema, context, tx, answer,
                   account_nonce>>

(***************************************************************************)
(* The node: the submitted transaction is finalized in a block, or the     *)
(* query of its status fails.                                              *)
(***************************************************************************)
NodeFinalizes(r) ==
    /\ answer[r].type = "Pending"
    /\ \E bs \in Summaries :
          answer' = [answer EXCEPT ![r] = [type |-> "Finalized", bh |-> "block", bs |-> bs]]
    /\ UNCHANGED <<app, pc, trace, keys, nonce, parameter, schema, context, tx, out,
                   exit, err, account_nonce>>

NodeFails(r) ==
    /\ answer[r].type = "Pending"
    /\ answer' = [answer EXCEPT ![r] = [type |-> "Error"]]
    /\ UNCHANGED <<app, pc, trace, keys, nonce, parameter, schema, context, tx, out,
                   exit, err, account_nonce>>

(***************************************************************************)
(* main, lines 288-312 and 318: wait_until_finalized(hash).await?, the     *)
(* finalizing block and the effect are printed, main returns Ok(())        *)
(***************************************************************************)
\* the await of line 288 resumes when the node has answered
AwaitReadyTimeout(ans) == TRUE

AwaitReady(ans) == ans.type \in {"Finalized", "Error"}

\* line 288 on an error of wait_until_finalized: the `?` returns it
WaitFailedExitOk(r) ==
    /\ ReturnOk(r, <<E("wait_until_finalized", "err")>>)
    /\ UNCHANGED out

WaitFailed(r) ==
    /\ ReturnErr(r, <<E("wait_until_finalized", "err")>>, "rpc error")
    /\ UNCHANGED out

\* lines 291-311: what the match on bs.details prints
InterpretSilent(bs) == <<>>

Interpret(bs) ==
    IF bs.details = "AccountTransaction"
    THEN CASE bs.effects = "ModuleDeployed" -> <<[line |-> "module ref is", data |-> bs.data]>>
           [] bs.effects = "ContractInitialized" ->
                 <<[line |-> "Contract address is", data |-> bs.data]>>
           [] bs.effects = "None" ->
                 <<[line |-> "The Rejection Outcome is", data |-> bs.data]>>
           [] OTHER -> <<>>
    ELSE <<>>

WaitUntilFinalized(r) ==
    /\ pc[r] = "wait_until_finalized"
    /\ AwaitReady(answer[r])
    /\ IF answer[r].type = "Finalized"
       THEN /\ Println(r, <<[line |-> "Transaction finalized in block", bh |-> answer[r].bh]>>
                          \o Interpret(answer[r].bs))
            /\ ReturnOk(r, <<E("wait_until_finalized", "ok"), E("report", "ok")>>)
       ELSE WaitFailed(r)
    /\ UNCHANGED <<app, keys, nonce, parameter, schema, context, tx, answer,
                   account_nonce>>

(***************************************************************************)
(* The node: another transaction of the account is accepted at the node,   *)
(* and the account's nonce at the best block moves on.                     *)
(***************************************************************************)
OtherTransaction ==
    /\ account_nonce < MaxNonce
    /\ account_nonce' = account_nonce + 1
    /\ UNCHANGED <<app, pc, trace, keys, nonce, parameter, schema, context, tx,
                   answer, out, exit, err>>

Next ==
    \/ \E r \in DOMAIN pc : ClientNew(r)
    \/ \E r \in DOMAIN pc : FromJsonFile(r)
    \/ \E r \in DOMAIN pc : GetAccountInfo(r)
    \/ \E r \in DOMAIN pc : InitAction(r)
    \/ \E r \in DOMAIN pc : DeployAction(r)
    \/ \E r \in DOMAIN pc : ReadParameter(r)
    \/ \E r \in DOMAIN pc : ReadSchema(r)
    \/ \E r \in DOMAIN pc : Mint(r)
    \/ \E r \in DOMAIN pc : Transfer(r)
    \/ \E r \in DOMAIN pc : TokenMetadata(r)
    \/ \E r \in DOMAIN pc : InvokeInstance(r)
    \/ \E r \in DOMAIN pc : SendBlockItem(r)
    \/ \E r \in DOMAIN pc : NoStateChanges(r)
    \/ \E r \in DOMAIN pc : WaitUntilFinalized(r)
    \/ \E r \in DOMAIN pc : NodeFinalizes(r)
    \/ \E r \in DOMAIN pc : NodeFails(r)
    \/ OtherTransaction

Spec == Init /\ [][Next]_vars

\* the runtime keeps polling main's future, so a step of the run that is
\* enabled is eventually taken; nothing is assumed of the node
RunStep ==
    \E r \in DOMAIN pc :
        \/ ClientNew(r) \/ FromJsonFile(r) \/ GetAccountInfo(r) \/ InitAction(r)
        \/ DeployAction(r) \/ ReadParameter(r) \/ ReadSchema(r) \/ Mint(r)
        \/ Transfer(r) \/ TokenMetadata(r) \/ InvokeInstance(r) \/ SendBlockItem(r)
        \/ NoStateChanges(r) \/ WaitUntilFinalized(r)

LiveSpec == Spec /\ WF_vars(RunStep)

(***************************************************************************)
(* Two runs of main at once, as two processes on the same account and      *)
(* node.  Both run an action that needs no parameter and no schema (init   *)
(* or deploy); the steps from the signed transaction on are those of every *)
(* state-changing run.                                                     *)
(***************************************************************************)
RaceActions == {a \in Actions : a.action \in {"Init", "Deploy"}}

InitRace ==
    /\ InitRuns(TwoRuns)
    /\ \A r \in TwoRuns : app[r] \in RaceActions

NextRace ==
    \/ \E r \in DOMAIN pc : ClientNew(r)
    \/ \E r \in DOMAIN pc : FromJsonFile(r)
    \/ \E r \in DOMAIN pc : GetAccountInfo(r)
    \/ \E r \in DOMAIN pc : InitAction(r)
    \/ \E r \in DOMAIN pc : DeployAction(r)
    \/ \E r \in DOMAIN pc : SendBlockItem(r)
    \/ \E r \in DOMAIN pc : WaitUntilFinalized(r)
    \/ \E r \in DOMAIN pc : NodeFinalizes(r)
    \/ \E r \in DOMAIN pc : NodeFails(r)
    \/ OtherTransaction

SpecRace == InitRace /\ [][NextRace]_vars

(***************************************************************************)
(* Reading the history of a run.                                           *)
(***************************************************************************)
At(r, stage) == {i \in DOMAIN trace[r] : trace[r][i].stage = stage}

Has(r, stage, res) == \E i \in At(r, stage) : trace[r][i].res = res

Before(r, stage, res, i) == \E j \in At(r, stage) : j < i /\ trace[r][j].res = res

Printed(r, line) == {i \in DOMAIN out[r] : out[r][i].line = line}

(***************************************************************************)
(* C1: in every run, whatever the action and whatever the node answers,    *)
(* send_block_item is called at most once; a failed submission is not      *)
(* retried.                                                                *)
(***************************************************************************)
AtMostOnceSubmission ==
    \A r \in DOMAIN pc : Cardinality(At(r, "send_block_item")) <= 1

\* a run whose submission the node rejected, and which has ended
FailedSubmissionEnded ==
    \E r \in DOMAIN pc : Has(r, "send_block_item", "err") /\ exit[r] # "running"

(***************************************************************************)
(* C2: when send_block_item returns an error the run has ended with an     *)
(* error: it does not await the finalization, has printed nothing (no      *)
(* hash, no finalizing block, no outcome) and has not exited successfully. *)
(***************************************************************************)
RejectedSubmissionEndsRun ==
    \A r \in DOMAIN pc :
        Has(r, "send_block_item", "err") =>
            /\ pc[r] = "failed"
            /\ exit[r] = "failure"
            /\ out[r] = <<>>
            /\ At(r, "wait_until_finalized") = {}
            /\ answer[r].type = "Unset"

\* the node rejected the submission of a signed transaction
SubmissionRejected ==
    \E r \in DOMAIN pc :
        /\ Has(r, "send_block_item", "err")
        /\ tx[r].type = "StateChanging"
        /\ Has(r, "sign", "ok")

\* the place of a stage in the order of a run; 0 for the other calls
StageRank(stage) ==
    CASE stage = "get_account_info" -> 1
      [] stage = "build" -> 2
      [] stage = "sign" -> 3
      [] stage = "send_block_item" -> 4
      [] stage = "wait_until_finalized" -> 5
      [] stage = "report" -> 6
      [] OTHER -> 0

(***************************************************************************)
(* C3: the stages fetch nonce, build, sign, submit, await finalization,    *)
(* report of a run happen in this order and none of them twice: the        *)
(* transaction is built only after the nonce was fetched, submitted only   *)
(* after it was built and signed, its finalization is awaited only after   *)
(* the submission succeeded, and its outcome is reported only after the    *)
(* node reported it finalized.                                             *)
(***************************************************************************)
StagesInOrder ==
    \A r \in DOMAIN pc :
        /\ \A i, j \in DOMAIN trace[r] :
              (i < j /\ StageRank(trace[r][i].stage) > 0
                     /\ StageRank(trace[r][j].stage) > 0)
                  => StageRank(trace[r][i].stage) < StageRank(trace[r][j].stage)
        /\ \A i \in At(r, "build") : Before(r, "get_account_info", "ok", i)
        /\ \A i \in At(r, "sign") : Before(r, "build", "ok", i)
        /\ \A i \in At(r, "send_block_item") : Before(r, "sign", "ok", i)
        /\ \A i \in At(r, "wait_until_finalized") : Before(r, "send_block_item", "ok", i)
        /\ \A i \in At(r, "report") : Before(r, "wait_until_finalized", "ok", i)

\* a run that went through all six stages
AllStagesDone ==
    \E r \in DOMAIN pc :
        /\ Has(r, "report", "ok")
        /\ Has(r, "get_account_info", "ok")
        /\ Has(r, "send_block_item", "ok")
        /\ pc[r] = "done"

\* what the nonce of a run is, and where it is used
NonceUsed ==
    \A r \in DOMAIN pc :
        /\ Cardinality(At(r, "get_account_info")) <= 1
        /\ nonce[r] # NoNonce <=> Has(r, "get_account_info", "ok")
        /\ tx[r].type = "StateChanging" => tx[r].nonce = nonce[r]
        /\ \A i \in Printed(r, "submitted") :
              out[r][i].nonce = nonce[r] /\ out[r][i].transaction_hash[2] = nonce[r]

\* the only step that changes the nonce of a run
NonceSetOnce ==
    \A r \in DOMAIN pc :
        nonce'[r] # nonce[r] =>
            /\ nonce[r] = NoNonce
            /\ pc[r] = "get_account_info"
            /\ nonce'[r] = account_nonce

LeavesAwaitOnAnswer ==
    \A r \in DOMAIN pc :
        (pc[r] = "wait_until_finalized" /\ pc'[r] # "wait_until_finalized")
            => answer[r].type \in {"Finalized", "Error"}

\* run r printed the finalizing block and returned Ok(())
FinalizedBlockPrinted(r) ==
    /\ pc[r] = "done"
    /\ exit[r] = "success"
    /\ Printed(r, "Transaction finalized in block") # {}

(***************************************************************************)
(* C5: after a successful submission the run leaves the await of           *)
(* wait_until_finalized only when the node has answered (there is no       *)
(* timeout), and once the node has reported the transaction finalized the  *)
(* run prints the finalizing block and ends.                               *)
(***************************************************************************)
WaitsUntilFinalized ==
    /\ [][LeavesAwaitOnAnswer]_vars
    /\ \A r \in OneRun :
          (pc[r] = "wait_until_finalized" /\ answer[r].type = "Finalized")
              ~> FinalizedBlockPrinted(r)

\* a run that awaited the finalization and printed the finalizing block
AwaitedAndFinalized ==
    \E r \in DOMAIN pc :
        /\ FinalizedBlockPrinted(r)
        /\ Has(r, "wait_until_finalized", "ok")

\* run r has received a finalized summary with the effect None
LedgerRejected(r) ==
    /\ answer[r].type = "Finalized"
    /\ answer[r].bs.details = "AccountTransaction"
    /\ answer[r].bs.effects = "None"
    /\ pc[r] # "wait_until_finalized"

(***************************************************************************)
(* C6: when the submitted transaction is finalized with the effect None    *)
(* and reject reason X, the run prints X and ends with the success exit    *)
(* status, without an error.                                               *)
(***************************************************************************)
LedgerRejectionReported ==
    \A r \in DOMAIN pc :
        LedgerRejected(r) =>
            /\ exit[r] = "success"
            /\ err[r] = "-"
            /\ \E i \in Printed(r, "The Rejection Outcome is") :
                  out[r][i].data = answer[r].bs.data

\* a run whose transaction the ledger rejected with OutOfEnergy has ended
RejectionSeen ==
    \E r \in DOMAIN pc :
        /\ LedgerRejected(r)
        /\ answer[r].bs.data = "OutOfEnergy"
        /\ pc[r] = "done"

\* the update transaction of run r was finalized as ContractUpdateIssued
UpdateIssued(r) ==
    /\ tx[r].type = "StateChanging"
    /\ tx[r].payload.kind = "UpdateContract"
    /\ answer[r].type = "Finalized"
    /\ answer[r].bs.details = "AccountTransaction"
    /\ answer[r].bs.effects = "ContractUpdateIssued"
    /\ pc[r] = "done"

\* the lines that report the effect of the finalized transaction
EffectLines == {"module ref is", "Contract address is", "The Rejection Outcome is"}

(***************************************************************************)
(* C7: when a submitted update transaction (mint or transfer) is finalized *)
(* with the effect ContractUpdateIssued, the output of the run lists the   *)
(* sub-effects of the update.                                              *)
(***************************************************************************)
UpdateEffectsReported ==
    \A r \in DOMAIN pc :
        UpdateIssued(r) =>
            \E i \in DOMAIN out[r] :
                /\ out[r][i].line \in EffectLines
                /\ out[r][i].data = answer[r].bs.data

\* the calls of main that reach the node
NetworkStages ==
    {"connect", "get_account_info", "invoke_instance", "send_block_item",
     "wait_until_finalized"}

(***************************************************************************)
(* C8, as stated: no network activity of a run, the opening of the         *)
(* connection included, precedes the successful reading of the key file.   *)
(***************************************************************************)
NoNetworkBeforeKeys ==
    \A r \in DOMAIN pc :
        \A i \in DOMAIN trace[r] :
            trace[r][i].stage \in NetworkStages => Before(r, "read_keys", "ok", i)

(***************************************************************************)
(* C8, amended: the connection to the node is opened before the key file   *)
(* is read, but no request is sent to the node before the key file has     *)
(* been read successfully; when the key file is missing or invalid the run *)
(* fails with the key-file error right after connecting.                   *)
(***************************************************************************)
NoRequestBeforeKeys ==
    \A r \in DOMAIN pc :
        /\ \A i \in DOMAIN trace[r] :
              trace[r][i].stage \in NetworkStages \ {"connect"}
                  => Before(r, "read_keys", "ok", i)
        /\ Has(r, "read_keys", "err") =>
              /\ trace[r] = <<E("connect", "ok"), E("read_keys", "err")>>
              /\ exit[r] = "failure"
              /\ err[r] = "Could not read the keys file."

\* a run whose key file could not be read
KeyFileFailed ==
    \E r \in DOMAIN pc : Has(r, "read_keys", "err") /\ Has(r, "connect", "ok")

(***************************************************************************)
(* C9, as stated: no run in which a stage failed, the invocation of the    *)
(* instance for a view included, ends with the success exit status.        *)
(***************************************************************************)
NoFailedStageSucceeds ==
    \A r \in DOMAIN pc :
        exit[r] = "success" =>
            \A i \in DOMAIN trace[r] : trace[r][i].res \notin {"err", "panic", "rejected"}

(***************************************************************************)
(* C9, amended: a stage that returns an error or panics is the last stage  *)
(* of its run, which ends with a non-zero exit; the one failure that does  *)
(* not abort the run is a view invocation that the node answers with a     *)
(* Failure result: the run prints that the invocation did not succeed and  *)
(* ends with the success exit status.                                      *)
(***************************************************************************)
ErrorsAbortRun ==
    \A r \in DOMAIN pc :
        /\ \A i \in DOMAIN trace[r] :
              trace[r][i].res \in {"err", "panic"} =>
                  /\ i = Len(trace[r])
                  /\ pc[r] = "failed"
                  /\ exit[r] \in {"failure", "panic"}
        /\ exit[r] = "success" =>
              \A i \in DOMAIN trace[r] : trace[r][i].res \in {"ok", "rejected"}
        /\ (Has(r, "invoke_instance", "rejected") /\ pc[r] = "done") =>
              /\ exit[r] = "success"
              /\ Printed(r, "Could'nt succesfully invoke the instance.") # {}

\* a run that was aborted by an error of wait_until_finalized
AwaitFailed ==
    \E r \in DOMAIN pc :
        Has(r, "wait_until_finalized", "err") /\ exit[r] = "failure"

(***************************************************************************)
(* C10: the value a view invocation prints is the return value decoded by  *)
(* the return layout of tokenMetadata, also when the parameter is empty    *)
(* and whatever the parameter layout is.                                   *)
(***************************************************************************)
ViewDecodedByReturnLayout ==
    \A r \in DOMAIN pc :
        \A i \in Printed(r, "return value") :
            /\ schema[r].tokenMetadata.rv # NoSchema
            /\ to_json_string_pretty(schema[r].tokenMetadata.rv, out[r][i].bytes).ok
            /\ out[r][i].value
                  = to_json_string_pretty(schema[r].tokenMetadata.rv, out[r][i].bytes).val

\* a view with an empty parameter printed a value that the parameter
\* layout would have decoded differently
EmptyParameterViewPrinted ==
    \E r \in DOMAIN pc :
        /\ context[r].type = "ContractContext"
        /\ context[r].parameter = <<>>
        /\ \E i \in Printed(r, "return value") :
              out[r][i].value
                  # to_json_string_pretty(schema[r].tokenMetadata.param,
                                          out[r][i].bytes).val

(***************************************************************************)
(* C11: two runs on the same account are not serialized by the client: a   *)
(* run fetches the nonce and submits its transaction whatever the other    *)
(* run is doing, so both may hold the same nonce and both may submit with  *)
(* it; the ledger accepts at most one transaction per nonce of the         *)
(* account, so of two submissions with the same nonce the later one is     *)
(* rejected.                                                               *)
(***************************************************************************)
ConcurrentRunsRace ==
    \A r \in DOMAIN pc :
        /\ pc[r] = "get_account_info" => ENABLED GetAccountInfo(r)
        /\ (pc[r] = "match_tx" /\ tx[r].type = "StateChanging")
              => ENABLED SendBlockItem(r)
        /\ \A q \in DOMAIN pc \ {r} :
              /\ (Has(r, "send_block_item", "ok") /\ Has(q, "send_block_item", "ok"))
                    => tx[r].nonce # tx[q].nonce
              /\ (Has(q, "send_block_item", "ok") /\ pc[r] = "match_tx"
                    /\ tx[r].type = "StateChanging" /\ tx[r].nonce = tx[q].nonce)
                    => \A res \in SendResponses(tx[r]) : ~res.ok

\* both runs fetched the same nonce and both submitted with it: the first
\* submission was accepted, the later one rejected
RaceLost ==
    \E r, q \in DOMAIN pc :
        /\ r # q
        /\ nonce[r] = nonce[q]
        /\ Has(r, "get_account_info", "ok") /\ Has(q, "get_account_info", "ok")
        /\ Has(r, "send_block_item", "ok")
        /\ Has(q, "send_block_item", "err")
        /\ tx[q].nonce = tx[r].nonce

(***************************************************************************)
(* C13: every init payload and every update payload that a run builds, and *)
(* the context of a view invocation, carries an amount, and the amount is  *)
(* zero whatever the action, the parameter and the schema are.             *)
(***************************************************************************)
AmountIsZero ==
    \A r \in DOMAIN pc :
        /\ (tx[r].type = "StateChanging"
              /\ tx[r].payload.kind \in {"InitContract", "UpdateContract"})
              => ("amount" \in DOMAIN tx[r].payload /\ tx[r].payload.amount = 0)
        /\ context[r].type = "ContractContext"
              => ("amount" \in DOMAIN context[r] /\ context[r].amount = 0)

\* an update payload with a parameter of two bytes was built and signed
UpdateWithParameterBuilt ==
    \E r \in DOMAIN pc :
        /\ tx[r].type = "StateChanging"
        /\ tx[r].payload.kind = "UpdateContract"
        /\ Len(tx[r].payload.message) = 2
        /\ Has(r, "sign", "ok")

(***************************************************************************)
(* C14, as stated: a TokenMetadata run whose invocation the node answered, *)
(* with Success or with Failure, ends with the success exit status.        *)
(***************************************************************************)
ViewAlwaysEndsGracefully ==
    \A r \in DOMAIN pc :
        (app[r].transaction_type_ = "TokenMetadata"
           /\ (Has(r, "invoke_instance", "ok") \/ Has(r, "invoke_instance", "rejected")))
            => exit[r] \in {"running", "success"}

(***************************************************************************)
(* C14, amended: a TokenMetadata run never builds, signs or submits a      *)
(* transaction and never awaits a finalization; it invokes the instance at *)
(* most once.  When the node answers Failure, or Success with a return     *)
(* value that the return layout decodes, the run prints 'No state changes' *)
(* and ends with the success exit status; when the invocation returns an   *)
(* RPC error, or Success without a return value, or a return value that    *)
(* the return layout cannot decode, the run ends with a non-zero exit and  *)
(* without that line.                                                      *)
(***************************************************************************)
ViewRunOutcome ==
    \A r \in DOMAIN pc :
        app[r].transaction_type_ = "TokenMetadata" =>
            /\ \A st \in {"build", "sign", "send_block_item", "wait_until_finalized"} :
                  At(r, st) = {}
            /\ tx[r].type # "StateChanging"
            /\ answer[r].type = "Unset"
            /\ Cardinality(At(r, "invoke_instance")) <= 1
            /\ pc[r] = "done" =>
                  /\ exit[r] = "success"
                  /\ Printed(r, "No state changes, gracefully exiting.") = {Len(out[r])}
                  /\ Has(r, "invoke_instance", "rejected") \/ Has(r, "decode", "ok")
            /\ (Has(r, "invoke_instance", "rejected") \/ Has(r, "decode", "ok")) =>
                  /\ pc[r] \in {"match_tx", "done"}
                  /\ tx[r].type = "None"
            /\ (Has(r, "invoke_instance", "err") \/ Has(r, "decode", "err")
                  \/ Has(r, "decode", "panic")) =>
                  /\ exit[r] \in {"failure", "panic"}
                  /\ Printed(r, "No state changes, gracefully exiting.") = {}

\* a view run ended gracefully after the node answered Failure
ViewFailureEndedGracefully ==
    \E r \in DOMAIN pc :
        /\ app[r].transaction_type_ = "TokenMetadata"
        /\ Has(r, "invoke_instance", "rejected")
        /\ pc[r] = "done"

\* the local steps of an update run, before anything is built
LocalStages ==
    {"read_parameter", "parse_parameter", "read_schema", "parse_schema",
     "schema_lookup", "encode"}

(***************************************************************************)
(* C15: when a local step of an update run fails (the parameter file is    *)
(* unreadable or no JSON, the schema file is unreadable or unparsable, the *)
(* method is absent from the schema, the JSON value is not encodable by    *)
(* the parameter layout), the run has built, signed and submitted nothing  *)
(* and has sent no invocation either.                                      *)
(***************************************************************************)
LocalFailureSubmitsNothing ==
    \A r \in DOMAIN pc :
        (\E i \in DOMAIN trace[r] :
            trace[r][i].stage \in LocalStages /\ trace[r][i].res \in {"err", "panic"})
            => /\ tx[r].type = "Unset"
               /\ context[r].type = "Unset"
               /\ answer[r].type = "Unset"
               /\ \A st \in {"build", "sign", "send_block_item", "invoke_instance",
                             "wait_until_finalized"} : At(r, st) = {}

\* a mint whose JSON value the parameter layout cannot encode
MintNotEncodable ==
    \E r \in DOMAIN pc :
        /\ app[r].transaction_type_ = "Mint"
        /\ Has(r, "encode", "err")

====
